---- MODULE Spec2Model ----
(***************************************************************************)
(* Bloq <-> Cirq conversion layer (qualtran.cirq_interop._bloq_to_cirq):   *)
(* the graph-to-circuit exporter _cbloq_to_cirq_circuit, the wire tracking *)
(* of _bloq_to_cirq_op / _track_soq_name_changes, and the BloqAsCirqGate   *)
(* shim.  One behaviour of the model is one top-level call.                *)
(***************************************************************************)
EXTENDS Integers, Sequences, FiniteSets, TLC

\* ------------------------------------------------------------------ bounds
\* Number of wire slots of a generated graph / qubits of a flat circuit.
MaxWires == 2
\* Number of builder instructions (operations) of a generated graph or circuit.
MaxInstr == 3
\* Number of registers of an abstract (non-decomposable) operation signature.
MaxRegs == 2
\* Largest absolute exponent passed to the shim's power.
MaxPower == 2

Wires == 1..MaxWires

\* ------------------------------------------------------------ data model
\* Sentinel binst ids; real instances are numbered 1, 2, ...
LeftDangle == 0
RightDangle == -1

Register(name, side, len, dtype) ==
    [name |-> name, side |-> side, len |-> len, dtype |-> dtype]

QDType(dtype) == dtype = "QBit"

Soquet(binst, reg, idx) == [binst |-> binst, reg |-> reg, idx |-> idx]

Connection(l, r) == [left |-> l, right |-> r]

\* _QReg: a tuple of qubits plus the originating dtype.
QReg(qubits, dtype) == [qubits |-> qubits, dtype |-> dtype]

LineQubit(i) == [kind |-> "line", id |-> i]
CleanQubit(i) == [kind |-> "clean", id |-> i]

\* An unfilled cell of an np.empty(dtype=object) array.
None == <<>>

lefts(sig) == SelectSeq(sig, LAMBDA r : r.side \in {"LEFT", "THRU"})
rights(sig) == SelectSeq(sig, LAMBDA r : r.side \in {"RIGHT", "THRU"})

SeqToSet(s) == {s[i] : i \in 1..Len(s)}

RegNames(sig) == {sig[i].name : i \in 1..Len(sig)}

RegByName(sig, name) == CHOOSE r \in SeqToSet(sig) : r.name = name

\* Signatures of the operations placed in graphs.
BloqSignature(kind) ==
    CASE kind = "X" -> <<Register("q", "THRU", 1, "QBit")>>
      [] kind = "CNOT" -> <<Register("q", "THRU", 2, "QBit")>>
      [] kind = "Allocate" -> <<Register("reg", "RIGHT", 1, "QBit")>>
      [] kind = "Free" -> <<Register("reg", "LEFT", 1, "QBit")>>
      [] kind = "Meas" -> <<Register("q", "THRU", 1, "QBit"),
                            Register("c", "RIGHT", 1, "CBit")>>
      [] kind = "Split" -> <<Register("reg", "LEFT", 1, "QBit"),
                             Register("reg", "RIGHT", 1, "QBit")>>

\* Dictionary helpers (Python dict assignment and del).
MapPut(m, k, v) == [x \in (DOMAIN m) \cup {k} |-> IF x = k THEN v ELSE m[x]]
MapDel(m, k) == [x \in (DOMAIN m) \ {k} |-> m[x]]
EmptyMap == [x \in {} |-> QReg(None, "QBit")]

\* ------------------------------------------------------- qubit manager
NewManager == [managed |-> {}, next |-> 0, freed |-> {}]

manage_qubits(qm, qs) == [qm EXCEPT !.managed = @ \cup qs]

qalloc(qm, n) ==
    LET new == [i \in 1..n |-> CleanQubit(qm.next + i)]
    IN  [qm |-> [qm EXCEPT !.managed = @ \cup SeqToSet(new), !.next = @ + n],
         qubits |-> new]

qfree(qm, qs) ==
    IF qs \subseteq qm.managed
    THEN [err |-> "none",
          qm |-> [qm EXCEPT !.managed = @ \ qs, !.freed = @ \cup qs]]
    ELSE [err |-> "FreeUnmanaged", qm |-> qm]

\* ------------------------------------------------ composite-bloq graphs
\* A graph is [sig, binsts, cxns]: the signature, the kind of every instance
\* and the connections in the order the builder recorded them.
WireName == <<"w1", "w2", "w3", "w4">>
CName == <<"c1", "c2", "c3", "c4", "c5">>

NoReg == Register("", "THRU", 0, "QBit")
NoSoq == Soquet(LeftDangle, NoReg, 0)

\* Builder instructions over wire slots: a gate on one or two wires, an
\* allocation, a deallocation, a reshape that hands its LEFT qubits on as a
\* RIGHT register, an operation with a classical output (b = 1: the
\* classical output is wired to the right boundary), a wire crossing, or a
\* wire left dangling (its slot stays live but is wired to nothing).
Instrs ==
    [op : {"X", "Allocate", "Free", "Lose", "Split"}, a : Wires, b : {0}]
    \cup {i \in [op : {"CNOT"}, a : Wires, b : Wires] : i.a # i.b}
    \cup [op : {"Meas"}, a : Wires, b : {0, 1}]
    \cup {i \in [op : {"Swap"}, a : Wires, b : Wires] : i.a < i.b}

Progs == UNION {[1..n -> Instrs] : n \in 0..MaxInstr}

\* One builder step.  `last[w]` is the Soquet most recently produced on wire
\* slot w (it stays there after a Free, so a later use of the slot consumes
\* it a second time); a use of a slot that never held a wire has no
\* incoming connection.
AddBloq(st, i, ins) ==
    LET sg == IF ins.op \in {"Swap", "Lose"} THEN <<NoReg>> ELSE BloqSignature(ins.op)
        in1 == IF st.last[ins.a] = NoSoq THEN <<>>
               ELSE <<Connection(st.last[ins.a], Soquet(i, sg[1], 1))>>
    IN  CASE ins.op \in {"X", "Meas"} ->
               [st EXCEPT !.binsts = MapPut(@, i, ins.op),
                          !.cxns = @ \o in1,
                          !.last[ins.a] = Soquet(i, sg[1], 1),
                          !.live[ins.a] = TRUE,
                          !.cls = IF ins.op = "Meas" /\ ins.b = 1
                                  THEN Append(@, i) ELSE @]
          [] ins.op = "CNOT" ->
               [st EXCEPT !.binsts = MapPut(@, i, ins.op),
                          !.cxns = @ \o in1 \o
                                   (IF st.last[ins.b] = NoSoq THEN <<>>
                                    ELSE <<Connection(st.last[ins.b], Soquet(i, sg[1], 2))>>),
                          !.last[ins.a] = Soquet(i, sg[1], 1),
                          !.last[ins.b] = Soquet(i, sg[1], 2),
                          !.live[ins.a] = TRUE,
                          !.live[ins.b] = TRUE]
          [] ins.op = "Allocate" ->
               [st EXCEPT !.binsts = MapPut(@, i, ins.op),
                          !.last[ins.a] = Soquet(i, sg[1], 1),
                          !.live[ins.a] = TRUE]
          [] ins.op = "Free" ->
               IF st.last[ins.a] = NoSoq THEN st
               ELSE [st EXCEPT !.binsts = MapPut(@, i, ins.op),
                               !.cxns = @ \o in1,
                               !.live[ins.a] = FALSE]
          [] ins.op = "Split" ->
               IF st.last[ins.a] = NoSoq THEN st
               ELSE [st EXCEPT !.binsts = MapPut(@, i, ins.op),
                               !.cxns = @ \o in1,
                               !.last[ins.a] = Soquet(i, sg[2], 1)]
          [] ins.op = "Lose" -> [st EXCEPT !.last[ins.a] = NoSoq]
          [] ins.op = "Swap" ->
               [st EXCEPT !.last[ins.a] = st.last[ins.b],
                          !.last[ins.b] = st.last[ins.a],
                          !.live[ins.a] = st.live[ins.b],
                          !.live[ins.b] = st.live[ins.a]]

RECURSIVE BuildFrom(_, _, _)
BuildFrom(prog, i, st) ==
    IF i > Len(prog) THEN st
    ELSE BuildFrom(prog, i + 1, AddBloq(st, i, prog[i]))

BuilderInit(last0, live0) ==
    [binsts |-> [x \in {} |-> ""], cxns |-> <<>>, last |-> last0,
     live |-> live0, cls |-> <<>>]

WireSide(isIn, isOut) ==
    IF isIn /\ isOut THEN "THRU" ELSE IF isIn THEN "LEFT" ELSE "RIGHT"

RECURSIVE WireRegs(_, _, _)
WireRegs(w, L0, liveEnd) ==
    IF w > MaxWires THEN <<>>
    ELSE (IF w \in L0 \/ liveEnd[w]
          THEN <<Register(WireName[w], WireSide(w \in L0, liveEnd[w]), 1, "QBit")>>
          ELSE <<>>) \o WireRegs(w + 1, L0, liveEnd)

RECURSIVE ClassicalRegs(_)
ClassicalRegs(cls) ==
    IF cls = <<>> THEN <<>>
    ELSE <<Register(CName[Head(cls)], "RIGHT", 1, "CBit")>> \o ClassicalRegs(Tail(cls))

RECURSIVE FinalCxns(_, _, _)
FinalCxns(w, st, sig) ==
    IF w > MaxWires THEN <<>>
    ELSE (IF st.live[w] /\ st.last[w] # NoSoq
          THEN <<Connection(st.last[w],
                            Soquet(RightDangle, RegByName(sig, WireName[w]), 1))>>
          ELSE <<>>) \o FinalCxns(w + 1, st, sig)

RECURSIVE ClassicalCxns(_, _)
ClassicalCxns(cls, sig) ==
    IF cls = <<>> THEN <<>>
    ELSE <<Connection(Soquet(Head(cls), BloqSignature("Meas")[2], 1),
                      Soquet(RightDangle, RegByName(sig, CName[Head(cls)]), 1))>>
         \o ClassicalCxns(Tail(cls), sig)

\* The graph a builder program yields from the wire slots L0 live at the
\* left boundary; wire slots live at the end are wired to the right boundary.
GenGraph(L0, prog) ==
    LET live0 == [w \in Wires |-> w \in L0]
        dry == BuildFrom(prog, 1,
                   BuilderInit([w \in Wires |->
                                  IF w \in L0
                                  THEN Soquet(LeftDangle,
                                              Register(WireName[w], "THRU", 1, "QBit"), 1)
                                  ELSE NoSoq], live0))
        sig == WireRegs(1, L0, dry.live) \o ClassicalRegs(dry.cls)
        last0 == [w \in Wires |-> IF w \in L0
                                  THEN Soquet(LeftDangle, RegByName(sig, WireName[w]), 1)
                                  ELSE NoSoq]
        st == BuildFrom(prog, 1, BuilderInit(last0, live0))
    IN  [sig |-> sig, binsts |-> st.binsts,
         cxns |-> st.cxns \o ClassicalCxns(st.cls, sig) \o FinalCxns(1, st, sig)]

EmptyGraph == [sig |-> <<>>, binsts |-> [x \in {} |-> ""], cxns |-> <<>>]

\* Soquets a graph produces (left boundary, instance outputs) and consumes
\* (instance inputs, right boundary).
RegSoquets(b, regs) ==
    UNION {{Soquet(b, r, i) : i \in 1..r.len} : r \in SeqToSet(regs)}

Produced(g) ==
    RegSoquets(LeftDangle, lefts(g.sig))
    \cup UNION {RegSoquets(b, rights(BloqSignature(g.binsts[b]))) : b \in DOMAIN g.binsts}

Consumed(g) ==
    RegSoquets(RightDangle, rights(g.sig))
    \cup UNION {RegSoquets(b, lefts(BloqSignature(g.binsts[b]))) : b \in DOMAIN g.binsts}

\* Linear wire discipline: every Soquet produced exactly once and consumed
\* exactly once.
WellFormed(g) ==
    /\ \A s \in Produced(g) :
         Cardinality({i \in 1..Len(g.cxns) : g.cxns[i].left = s}) = 1
    /\ \A t \in Consumed(g) :
         Cardinality({i \in 1..Len(g.cxns) : g.cxns[i].right = t}) = 1
    /\ \A i \in 1..Len(g.cxns) :
         g.cxns[i].left \in Produced(g) /\ g.cxns[i].right \in Consumed(g)

\* binst_graph nodes and the connections into / out of a node.
GraphNodes(g) ==
    {g.cxns[i].left.binst : i \in 1..Len(g.cxns)}
    \cup {g.cxns[i].right.binst : i \in 1..Len(g.cxns)}

pred_cxns(g, b) == SelectSeq(g.cxns, LAMBDA c : c.right.binst = b)
succ_cxns(g, b) == SelectSeq(g.cxns, LAMBDA c : c.left.binst = b)

\* ------------------------------------------------------------ native calls
NoOp == [gate |-> "None", qubits |-> <<>>]

RECURSIVE flatten(_)
flatten(arr) == IF arr = <<>> THEN <<>> ELSE Head(arr) \o flatten(Tail(arr))

HasNone(arr) == \E i \in 1..Len(arr) : arr[i] = None

\* bloq.as_cirq_op(qubit_manager, **in_quregs): (op or None, out_quregs).
\* A gate acts on its qubits and hands its registers back unchanged; Allocate
\* and Free go through the qubit manager and emit no operation; a reshape
\* hands the qubits of its LEFT register on and emits no operation; an operation
\* without a native call of its own falls back to BloqAsCirqGate.bloq_on,
\* which allocates qubits for its RIGHT registers.
as_cirq_op(kind, qm, in_quregs) ==
    CASE kind \in {"X", "CNOT"} ->
           IF HasNone(in_quregs["q"])
           THEN [err |-> "ValueError:Qid", op |-> NoOp, out |-> in_quregs, qm |-> qm]
           ELSE [err |-> "none",
                 op |-> [gate |-> kind, qubits |-> flatten(in_quregs["q"])],
                 out |-> in_quregs, qm |-> qm]
      [] kind = "Allocate" ->
           LET r == qalloc(qm, 1)
           IN  [err |-> "none", op |-> NoOp,
                out |-> [n \in {"reg"} |-> <<r.qubits>>], qm |-> r.qm]
      [] kind = "Free" ->
           LET f == qfree(qm, SeqToSet(flatten(in_quregs["reg"])))
           IN  IF HasNone(in_quregs["reg"])
               THEN [err |-> "FreeUnmanaged", op |-> NoOp,
                     out |-> [n \in {} |-> <<>>], qm |-> qm]
               ELSE [err |-> f.err, op |-> NoOp,
                     out |-> [n \in {} |-> <<>>], qm |-> f.qm]
      [] kind = "Split" ->
           [err |-> "none", op |-> NoOp, out |-> in_quregs, qm |-> qm]
      [] kind = "Meas" ->
           LET r == qalloc(qm, 1)
           IN  IF HasNone(in_quregs["q"])
               THEN [err |-> "ValueError:Qid", op |-> NoOp, out |-> in_quregs, qm |-> qm]
               ELSE [err |-> "none",
                     op |-> [gate |-> "BloqAsCirqGate(Meas)",
                             qubits |-> flatten(in_quregs["q"]) \o r.qubits],
                     out |-> [n \in {"q", "c"} |->
                                IF n = "q" THEN in_quregs["q"] ELSE <<r.qubits>>],
                     qm |-> r.qm]

\* ------------------------------------------------------------ wire tracking
\* Faulty variant: the producer's binding is copied but not deleted.
RenameAcross_NoDel(cxn, qvar_to_qreg) ==
    MapPut(qvar_to_qreg, cxn.right, qvar_to_qreg[cxn.left])

\* One connection of _track_soq_name_changes: the binding moves from the
\* producer's Soquet to the consumer's.
RenameAcross(cxn, qvar_to_qreg) ==
    MapDel(MapPut(qvar_to_qreg, cxn.right, qvar_to_qreg[cxn.left]), cxn.left)

RECURSIVE track_soq_name_changes(_, _)
track_soq_name_changes(cxns, qvar_to_qreg) ==
    IF cxns = <<>> THEN [err |-> "none", map |-> qvar_to_qreg]
    ELSE IF Head(cxns).left \notin DOMAIN qvar_to_qreg
         THEN [err |-> "KeyError", map |-> qvar_to_qreg]
         ELSE track_soq_name_changes(Tail(cxns), RenameAcross(Head(cxns), qvar_to_qreg))

EmptyInQuregs(sig) ==
    [n \in RegNames(lefts(sig)) |->
        [i \in 1..RegByName(lefts(sig), n).len |-> None]]

\* Faulty variant: the register index of the Soquet is dropped.
StoreInput_FirstCell(in_quregs, soq, qubits) ==
    [in_quregs EXCEPT ![soq.reg.name][1] = qubits]

\* Line 218: the qubits of a consumed Soquet go to its cell of in_quregs.
StoreInput(in_quregs, soq, qubits) ==
    [in_quregs EXCEPT ![soq.reg.name][soq.idx] = qubits]

\* Faulty variant: a consumed LEFT Soquet keeps its binding.
RetireOnConsume_Never(soq) == FALSE

\* Whether a consumed Soquet's binding is retired once read.
RetireOnConsume(soq) == soq.reg.side = "LEFT"

\* Step 1 of _bloq_to_cirq_op: read the qubits of every consumed Soquet.
RECURSIVE ReadInputs(_, _, _)
ReadInputs(cxns, qvar_to_qreg, in_quregs) ==
    IF cxns = <<>>
    THEN [err |-> "none", map |-> qvar_to_qreg, inq |-> in_quregs]
    ELSE LET soq == Head(cxns).right
         IN  IF soq \notin DOMAIN qvar_to_qreg
             THEN [err |-> "AssertionError", map |-> qvar_to_qreg, inq |-> in_quregs]
             ELSE ReadInputs(Tail(cxns),
                      IF RetireOnConsume(soq) THEN MapDel(qvar_to_qreg, soq)
                      ELSE qvar_to_qreg,
                      StoreInput(in_quregs, soq, qvar_to_qreg[soq].qubits))

\* Faulty variant: the dtype of a RIGHT Soquet is not looked at.
OutputRule_NoClassicalCheck(soq) ==
    IF soq.reg.side = "RIGHT" THEN "bind" ELSE "skip"

\* The outcome of one produced Soquet: "skip" (a THRU wire keeps its
\* binding), "bind" or "unsupported" (a classical output-only wire).
OutputRule(soq) ==
    IF soq.reg.side = "RIGHT"
    THEN IF ~QDType(soq.reg.dtype) THEN "unsupported" ELSE "bind"
    ELSE "skip"

\* Step 2 of _bloq_to_cirq_op: bind every produced RIGHT Soquet.
RECURSIVE BindOutputs(_, _, _)
BindOutputs(cxns, qvar_to_qreg, out_quregs) ==
    IF cxns = <<>> THEN [err |-> "none", map |-> qvar_to_qreg]
    ELSE LET soq == Head(cxns).left
         IN  IF soq.reg.name \notin DOMAIN out_quregs
             THEN [err |-> "AssertionError", map |-> qvar_to_qreg]
             ELSE CASE OutputRule(soq) = "unsupported" ->
                         [err |-> "ValueError:classical", map |-> qvar_to_qreg]
                    [] OutputRule(soq) = "bind" ->
                         BindOutputs(Tail(cxns),
                             MapPut(qvar_to_qreg, soq,
                                    QReg(out_quregs[soq.reg.name][soq.idx], soq.reg.dtype)),
                             out_quregs)
                    [] OTHER -> BindOutputs(Tail(cxns), qvar_to_qreg, out_quregs)

bloq_to_cirq_op(kind, preds, succs, qvar_to_qreg, qubit_manager) ==
    LET t == track_soq_name_changes(preds, qvar_to_qreg)
        r == ReadInputs(preds, t.map, EmptyInQuregs(BloqSignature(kind)))
        c == as_cirq_op(kind, qubit_manager, r.inq)
        o == BindOutputs(succs, r.map, c.out)
        fail(e, qm) == [err |-> e, map |-> qvar_to_qreg, qm |-> qm, op |-> NoOp]
    IN  IF t.err # "none" THEN fail(t.err, qubit_manager)
        ELSE IF r.err # "none" THEN fail(r.err, qubit_manager)
        ELSE IF c.err # "none" THEN fail(c.err, c.qm)
        ELSE IF o.err # "none" THEN fail(o.err, c.qm)
        ELSE [err |-> "none", map |-> o.map, qm |-> c.qm, op |-> c.op]

\* get_named_qubits: distinct line qubits for the left registers, in order.
RECURSIVE NamedQubitsFrom(_, _)
NamedQubitsFrom(regs, base) ==
    IF regs = <<>> THEN [n \in {} |-> <<>>]
    ELSE LET r == Head(regs)
             rest == NamedQubitsFrom(Tail(regs), base + r.len)
         IN  [n \in {r.name} \cup DOMAIN rest |->
                IF n = r.name THEN [i \in 1..r.len |-> <<LineQubit(base + i)>>]
                ELSE rest[n]]

get_named_qubits(regs) == NamedQubitsFrom(regs, 0)

\* Faulty variant: every left register is bound to the qubits of the first
\* left register.
InitialBinding_FirstRegister(signature, quregs) ==
    LET soqs == RegSoquets(LeftDangle, lefts(signature))
    IN  [s \in soqs |-> QReg(quregs[lefts(signature)[1].name][s.idx], s.reg.dtype)]

\* Faulty variant: every index of a left register is bound to the register's first
\* cell.
InitialBinding_NoIdx(signature, quregs) ==
    LET soqs == RegSoquets(LeftDangle, lefts(signature))
    IN  [s \in soqs |-> QReg(quregs[s.reg.name][1], s.reg.dtype)]

\* Lines 253-261: the initial binding of every left-boundary Soquet.
InitialBinding(signature, quregs) ==
    LET soqs == RegSoquets(LeftDangle, lefts(signature))
    IN  [s \in soqs |-> QReg(quregs[s.reg.name][s.idx], s.reg.dtype)]

OutputSoquets(signature) == RegSoquets(RightDangle, rights(signature))

AllQubits(arrs) == UNION {SeqToSet(flatten(arrs[n])) : n \in DOMAIN arrs}

\* ------------------------------------------------------------ importer
\* A flat circuit is a sequence of operations [gate, qubits] on line qubits.
FlatOps ==
    {[gate |-> "X", qubits |-> <<LineQubit(a)>>] : a \in Wires}
    \cup {[gate |-> "CNOT", qubits |-> <<LineQubit(p[1]), LineQubit(p[2])>>] :
            p \in {x \in Wires \X Wires : x[1] # x[2]}}

Circuits == UNION {[1..n -> FlatOps] : n \in 0..MaxInstr}

RECURSIVE FirstUse(_, _)
FirstUse(qs, seen) ==
    IF qs = <<>> THEN <<>>
    ELSE IF Head(qs) \in seen THEN FirstUse(Tail(qs), seen)
         ELSE <<Head(qs)>> \o FirstUse(Tail(qs), seen \cup {Head(qs)})

CircuitQubits(circuit) == flatten([i \in 1..Len(circuit) |-> circuit[i].qubits])

IndexOf(seq, x) == CHOOSE i \in 1..Len(seq) : seq[i] = x

\* Faulty variant: the qubits in sorted order.
DefaultOrder_Sorted(circuit) ==
    LET S == SeqToSet(CircuitQubits(circuit))
    IN  CHOOSE seq \in [1..Cardinality(S) -> S] :
            \A i, j \in 1..Cardinality(S) : i < j => seq[i].id < seq[j].id

\* The order of the default register: each qubit once, by first use.
DefaultOrder(circuit) == FirstUse(CircuitQubits(circuit), {})

\* The default signature: one THRU register of single qubits covering the
\* qubits of the circuit.
DefaultSignature(nq) == <<Register("qubits", "THRU", nq, "QBit")>>

\* One operation added to the builder against the current wire of each of
\* its qubits.
RECURSIVE ImportOps(_, _, _, _)
ImportOps(circuit, k, cur, acc) ==
    IF k > Len(circuit) THEN [cur |-> cur, cxns |-> acc]
    ELSE LET qs == circuit[k].qubits
             reg == BloqSignature(circuit[k].gate)[1]
         IN  ImportOps(circuit, k + 1,
                 [q \in DOMAIN cur |->
                    IF q \in SeqToSet(qs) THEN Soquet(k, reg, IndexOf(qs, q)) ELSE cur[q]],
                 acc \o [j \in 1..Len(qs) |->
                           Connection(cur[qs[j]], Soquet(k, reg, j))])

cirq_optree_to_cbloq(circuit) ==
    LET order == DefaultOrder(circuit)
        sig == DefaultSignature(Len(order))
        cur0 == [q \in SeqToSet(order) |-> Soquet(LeftDangle, sig[1], IndexOf(order, q))]
        b == ImportOps(circuit, 1, cur0, <<>>)
    IN  [graph |-> [sig |-> sig,
                    binsts |-> [k \in 1..Len(circuit) |-> circuit[k].gate],
                    cxns |-> b.cxns \o
                             [i \in 1..Len(order) |->
                                Connection(b.cur[order[i]],
                                           Soquet(RightDangle, sig[1], i))]],
         quregs |-> [n \in {"qubits"} |-> [i \in 1..Len(order) |-> <<order[i]>>]]]

\* ---------------------------------------------------------------- the shim
\* An operation as the shim sees it: its signature, whether it is itself a
\* cirq.Gate, what decompose_bloq() does ("ok": returns the graph cbloq),
\* what tensor_contract() does, and whether it is an adjoint.
AbstractRegs == [name : {"a", "b"}, side : {"LEFT", "RIGHT", "THRU"}, len : {1}, dtype : {"QBit"}]

UniqueNames(regs) ==
    \A i, j \in 1..Len(regs) : regs[i].name = regs[j].name => i = j

\* Signature validation: register names are unique on each side.
ValidSignature(sig) == UniqueNames(lefts(sig)) /\ UniqueNames(rights(sig))

AbstractSigs ==
    {sg \in UNION {[1..n -> AbstractRegs] : n \in 0..MaxRegs} : ValidSignature(sg)}

AbstractBloqs ==
    [sig : AbstractSigs, isGate : BOOLEAN,
     decomp : {"DecomposeNotImplementedError", "DecomposeTypeError", "NotImplementedError"},
     cbloq : {EmptyGraph}, tensor : {"ndim2", "ndimOther", "NotImplementedError"},
     adj : {FALSE}]

CompositeBloq(g) ==
    [sig |-> g.sig, isGate |-> FALSE, decomp |-> "ok", cbloq |-> g,
     tensor |-> "ndim2", adj |-> FALSE]

FlipSide(side) ==
    IF side = "LEFT" THEN "RIGHT" ELSE IF side = "RIGHT" THEN "LEFT" ELSE "THRU"

\* bloq.adjoint(): sides swapped; the adjoint of an adjoint is the operation.
adjoint(bloq) ==
    [bloq EXCEPT !.adj = ~@,
                 !.sig = [i \in 1..Len(bloq.sig) |->
                            [bloq.sig[i] EXCEPT !.side = FlipSide(@)]]]

\* Signature.groups(): registers bucketed by name, in first-appearance order.
groups(sig) ==
    LET names == FirstUse([i \in 1..Len(sig) |-> sig[i].name], {})
    IN  [k \in 1..Len(names) |->
           [name |-> names[k], regs |-> SelectSeq(sig, LAMBDA r : r.name = names[k])]]

NoResult == [type |-> "None"]
NotImplemented == [type |-> "NotImplemented"]
NoShim == [type |-> "None"]
BloqAsCirqGate(bloq) == [type |-> "BloqAsCirqGate", bloq |-> bloq]

\* Faulty variant: off by one.
GroupTooLarge_OffByOne(regs) == Len(regs) > 2

\* The size of a name group from which the shim refuses the conversion.
GroupTooLarge(regs) == Len(regs) > 1

\* BloqAsCirqGate.__init__: the shim, or the error raised.
shim_init(bloq) ==
    LET gs == groups(bloq.sig)
        bad == {k \in 1..Len(gs) : GroupTooLarge(gs[k].regs)}
    IN  IF bloq.isGate
        THEN [err |-> "AssertionError", regs |-> <<>>, shim |-> NoShim]
        ELSE IF bad # {}
        THEN [err |-> "ValueError", shim |-> NoShim,
              regs |-> gs[CHOOSE k \in bad : \A m \in bad : k <= m].regs]
        ELSE [err |-> "none", regs |-> <<>>, shim |-> BloqAsCirqGate(bloq)]

AllThru(sig) == \A i \in 1..Len(sig) : sig[i].side = "THRU"

\* BloqAsCirqGate._has_unitary_
shim_has_unitary(self) == [type |-> "Bool", value |-> AllThru(self.bloq.sig)]

\* Faulty variant: the sides of the registers are not checked.
UnitaryGuard_Always(sig) == TRUE

\* Whether _unitary_ goes on to look for a matrix at all.
UnitaryGuard(sig) == AllThru(sig)

\* BloqAsCirqGate._unitary_: [err, result].
shim_unitary(self) ==
    IF UnitaryGuard(self.bloq.sig)
    THEN CASE self.bloq.decomp = "ok" -> [err |-> "none", result |-> NotImplemented]
           [] self.bloq.decomp \in {"DecomposeNotImplementedError", "DecomposeTypeError"} ->
                CASE self.bloq.tensor = "ndim2" ->
                       [err |-> "none", result |-> [type |-> "Matrix", of |-> self.bloq]]
                  [] self.bloq.tensor = "ndimOther" ->
                       [err |-> "AssertionError", result |-> NoResult]
                  [] OTHER -> [err |-> self.bloq.tensor, result |-> NoResult]
           [] OTHER -> [err |-> "none", result |-> NotImplemented]
    ELSE [err |-> "none", result |-> NotImplemented]

Abs(n) == IF n < 0 THEN -n ELSE n

\* BloqAsCirqGate.__pow__
shim_pow(self, n) ==
    IF n = 1 THEN self
    ELSE IF n = -1 THEN [type |-> "Bloq", bloq |-> adjoint(self.bloq)]
    ELSE [type |-> "Power",
          bloq |-> IF n > 0 THEN self.bloq ELSE adjoint(self.bloq),
          power |-> Abs(n)]

\* BloqAsCirqGate.__eq__
shim_eq(self, other) ==
    IF other.type # "BloqAsCirqGate" THEN FALSE ELSE self.bloq = other.bloq

\* Faulty variant: DecomposeTypeError is not caught.
CaughtByDecompose_NoTypeError == {"DecomposeNotImplementedError"}

\* The decomposition errors _decompose_with_context_ turns into NotImplemented.
CaughtByDecompose == {"DecomposeNotImplementedError", "DecomposeTypeError"}

\* Faulty variant: nothing is handed to qfree.
FreedOutputs_None(outq, reg) == {}

\* Line 69: the qubits handed to qfree for one RIGHT-only register.
FreedOutputs(outq, reg) == SeqToSet(flatten(outq[reg.name]))

\* Lines 62-71: free and map back the output qubits of RIGHT-only registers.
RECURSIVE MapBack(_, _, _, _, _)
MapBack(regs, outq, callerq, qm, qubit_map) ==
    IF regs = <<>> THEN [err |-> "none", qm |-> qm, qubit_map |-> qubit_map]
    ELSE LET reg == Head(regs)
         IN  IF reg.side # "RIGHT"
             THEN MapBack(Tail(regs), outq, callerq, qm, qubit_map)
             ELSE IF reg.name \notin DOMAIN callerq \/ reg.name \notin DOMAIN outq
             THEN [err |-> "AssertionError", qm |-> qm, qubit_map |-> qubit_map]
             ELSE LET o == flatten(outq[reg.name])
                      c == flatten(callerq[reg.name])
                      f == qfree(qm, FreedOutputs(outq, reg))
                  IN  IF Len(o) # Len(c)
                      THEN [err |-> "AssertionError", qm |-> qm, qubit_map |-> qubit_map]
                      ELSE IF f.err # "none"
                      THEN [err |-> f.err, qm |-> qm, qubit_map |-> qubit_map]
                      ELSE MapBack(Tail(regs), outq, callerq, f.qm,
                               [q \in DOMAIN qubit_map \cup SeqToSet(o) |->
                                  IF q \in SeqToSet(o) THEN c[IndexOf(o, q)]
                                  ELSE qubit_map[q]])

OpQubits(opseq) == UNION {SeqToSet(opseq[i].qubits) : i \in 1..Len(opseq)}

transform_qubits(opseq, qubit_map) ==
    [i \in 1..Len(opseq) |->
       [opseq[i] EXCEPT !.qubits = [j \in 1..Len(@) |-> qubit_map[@[j]]]]]

Circuit(opseq) == [type |-> "Circuit", ops |-> opseq]

\* ------------------------------------------------------------ state
VARIABLES
    pc,            \* "idle", "imported", "export", "exported", "shim", "done", "error"
    call,          \* the top-level call in progress
    graph,         \* binst_graph and signature being exported
    cirq_quregs,   \* left register name -> array of qubit tuples
    qvar_to_qreg,  \* the binding map Soquet -> _QReg
    ops,           \* operations emitted so far
    visited,       \* nodes of the graph already traversed
    binst,         \* the node the traversal is at
    qm,            \* qubit manager
    premanaged,    \* the managed set when the export started
    out_quregs,    \* right register name -> array of qubit tuples
    err,           \* the exception raised, [kind, regs]
    result,        \* the value returned by the call
    bloq,          \* the operation handed to the shim's constructor
    shim,          \* the constructed BloqAsCirqGate
    quregs,        \* caller's qubits of the shim decomposition, per register
    power,         \* the exponent of __pow__
    src_ops        \* the flat circuit handed to the importer

vars == <<pc, call, graph, cirq_quregs, qvar_to_qreg, ops, visited, binst, qm, premanaged,
          out_quregs, err, result, bloq, shim, quregs, power, src_ops>>

exportVars == <<graph, cirq_quregs, qvar_to_qreg, ops, visited, binst, qm, premanaged,
                out_quregs>>
shimVars == <<bloq, shim, quregs, power>>

NoErr == [kind |-> "none", regs |-> <<>>]
Raise(kind) == [kind |-> kind, regs |-> <<>>]
NoQuregs == [n \in {} |-> <<>>]
NoBloq == CompositeBloq(EmptyGraph)

Init ==
    /\ pc = "idle"
    /\ call = "none"
    /\ graph = EmptyGraph
    /\ cirq_quregs = NoQuregs
    /\ qvar_to_qreg = EmptyMap
    /\ ops = <<>>
    /\ visited = {}
    /\ binst = LeftDangle
    /\ qm = NewManager
    /\ premanaged = {}
    /\ out_quregs = NoQuregs
    /\ err = NoErr
    /\ result = NoResult
    /\ bloq = NoBloq
    /\ shim = NoShim
    /\ quregs = NoQuregs
    /\ power = 0
    /\ src_ops = <<>>

\* Lines 253-262 of _cbloq_to_cirq_circuit.
BeginExport(g, inq, manager) ==
    /\ graph' = g
    /\ cirq_quregs' = inq
    /\ qvar_to_qreg' = InitialBinding(g.sig, inq)
    /\ ops' = <<>>
    /\ visited' = {}
    /\ binst' = LeftDangle
    /\ qm' = manager
    /\ premanaged' = manager.managed
    /\ out_quregs' = NoQuregs
    /\ pc' = "export"

\* cbloq.to_cirq_circuit_and_quregs(**cirq_quregs) on a builder-made graph;
\* the caller may have marked the input qubits as managed beforehand.
ExportCall ==
    /\ pc = "idle"
    /\ \E L0 \in SUBSET Wires, prog \in Progs, pre \in BOOLEAN :
         LET g == GenGraph(L0, prog)
             inq == get_named_qubits(lefts(g.sig))
         IN  BeginExport(g, inq,
                 IF pre THEN manage_qubits(NewManager, AllQubits(inq)) ELSE NewManager)
    /\ call' = "export"
    /\ UNCHANGED <<err, result, src_ops>>
    /\ UNCHANGED shimVars

\* cirq_optree_to_cbloq(circuit) with no signature.
ImportCall ==
    /\ pc = "idle"
    /\ \E circuit \in Circuits :
         LET imp == cirq_optree_to_cbloq(circuit)
         IN  /\ src_ops' = circuit
             /\ graph' = imp.graph
             /\ cirq_quregs' = imp.quregs
    /\ pc' = "imported"
    /\ call' = "import"
    /\ UNCHANGED <<qvar_to_qreg, ops, visited, binst, qm, premanaged, out_quregs, err,
                   result>>
    /\ UNCHANGED shimVars

\* The imported graph exported again on the qubits it was bound to.
ExportImported ==
    /\ pc = "imported"
    /\ BeginExport(graph, cirq_quregs, NewManager)
    /\ UNCHANGED <<call, err, result, src_ops>>
    /\ UNCHANGED shimVars

\* Instances all of whose predecessors were traversed (a topological order).
Ready(g, vis) ==
    {b \in GraphNodes(g) \ ({LeftDangle} \cup vis) :
        \A i \in 1..Len(g.cxns) :
            g.cxns[i].right.binst = b => g.cxns[i].left.binst \in vis \cup {LeftDangle}}

Fail(e) ==
    /\ pc' = "error"
    /\ err' = Raise(e)
    /\ result' = NoResult

\* One iteration of the loop of lines 263-273.
ExportStep ==
    /\ pc = "export"
    /\ \E b \in Ready(graph, visited) :
         /\ binst' = b
         /\ IF b = RightDangle
            THEN LET t == track_soq_name_changes(pred_cxns(graph, b), qvar_to_qreg)
                 IN  IF t.err # "none"
                     THEN Fail(t.err) /\ UNCHANGED <<qvar_to_qreg, ops, visited, qm>>
                     ELSE /\ qvar_to_qreg' = t.map
                          /\ visited' = visited \cup {b}
                          /\ UNCHANGED <<pc, err, result, ops, qm>>
            ELSE LET r == bloq_to_cirq_op(graph.binsts[b], pred_cxns(graph, b),
                                          succ_cxns(graph, b), qvar_to_qreg, qm)
                 IN  IF r.err # "none"
                     THEN Fail(r.err) /\ qm' = r.qm /\ UNCHANGED <<qvar_to_qreg, ops, visited>>
                     ELSE /\ qvar_to_qreg' = r.map
                          /\ qm' = r.qm
                          /\ ops' = IF r.op = NoOp THEN ops ELSE Append(ops, r.op)
                          /\ visited' = visited \cup {b}
                          /\ UNCHANGED <<pc, err, result>>
    /\ UNCHANGED <<call, graph, cirq_quregs, premanaged, out_quregs, src_ops>>
    /\ UNCHANGED shimVars

\* Faulty variant: a THRU register of the signature is handed back as it came in.
f_quregs_ThruShortcut(reg, bindings) ==
    IF reg.side = "THRU" THEN cirq_quregs[reg.name]
    ELSE [i \in 1..reg.len |-> bindings[Soquet(RightDangle, reg, i)].qubits]

\* _f_quregs: the output array of one right register.
f_quregs(reg, bindings) ==
    [i \in 1..reg.len |-> bindings[Soquet(RightDangle, reg, i)].qubits]

\* Lines 275-285: the output arrays and the circuit.
ExportReturn ==
    /\ pc = "export"
    /\ GraphNodes(graph) \ {LeftDangle} \subseteq visited
    /\ IF OutputSoquets(graph.sig) \subseteq DOMAIN qvar_to_qreg
       THEN /\ out_quregs' = [n \in RegNames(rights(graph.sig)) |->
                                f_quregs(RegByName(rights(graph.sig), n), qvar_to_qreg)]
            /\ IF call = "decompose"
               THEN pc' = "exported" /\ UNCHANGED result
               ELSE pc' = "done" /\ result' = Circuit(ops)
            /\ UNCHANGED err
       ELSE Fail("KeyError") /\ UNCHANGED out_quregs
    /\ UNCHANGED <<call, graph, cirq_quregs, qvar_to_qreg, ops, visited, binst, qm,
                   premanaged, src_ops>>
    /\ UNCHANGED shimVars

\* BloqAsCirqGate(bloq)
ShimInit ==
    /\ pc = "idle"
    /\ \E b \in AbstractBloqs \cup {CompositeBloq(GenGraph(L0, prog)) :
                                     L0 \in SUBSET Wires, prog \in Progs} :
         LET r == shim_init(b)
         IN  /\ bloq' = b
             /\ shim' = r.shim
             /\ err' = [kind |-> r.err, regs |-> r.regs]
             /\ pc' = IF r.err = "none" THEN "shim" ELSE "error"
    /\ call' = "init"
    /\ UNCHANGED <<result, quregs, power, src_ops>>
    /\ UNCHANGED exportVars

ShimHasUnitary ==
    /\ pc = "shim"
    /\ call' = "has_unitary"
    /\ result' = shim_has_unitary(shim)
    /\ pc' = "done"
    /\ UNCHANGED <<err, src_ops>>
    /\ UNCHANGED shimVars
    /\ UNCHANGED exportVars

ShimUnitary ==
    /\ pc = "shim"
    /\ call' = "unitary"
    /\ LET r == shim_unitary(shim)
       IN  /\ result' = r.result
           /\ err' = Raise(r.err)
           /\ pc' = IF r.err = "none" THEN "done" ELSE "error"
    /\ UNCHANGED src_ops
    /\ UNCHANGED shimVars
    /\ UNCHANGED exportVars

ShimPow ==
    /\ pc = "shim"
    /\ call' = "pow"
    /\ \E n \in (-MaxPower)..MaxPower :
         /\ power' = n
         /\ result' = shim_pow(shim, n)
    /\ pc' = "done"
    /\ UNCHANGED <<err, src_ops, bloq, shim, quregs>>
    /\ UNCHANGED exportVars

\* _decompose_with_context_ up to the call of the exporter (lines 127-135,
\* 54-61).
ShimDecompose ==
    /\ pc = "shim"
    /\ call' = "decompose"
    /\ IF shim.bloq.decomp = "ok"
       THEN LET all == get_named_qubits(shim.bloq.sig)
                inq == [n \in RegNames(lefts(shim.bloq.sig)) |-> all[n]]
            IN  /\ quregs' = all
                /\ BeginExport(shim.bloq.cbloq, inq,
                               manage_qubits(NewManager, AllQubits(inq)))
                /\ UNCHANGED <<err, result>>
       ELSE /\ IF shim.bloq.decomp \in CaughtByDecompose
               THEN pc' = "done" /\ result' = NotImplemented /\ UNCHANGED err
               ELSE Fail(shim.bloq.decomp)
            /\ UNCHANGED quregs
            /\ UNCHANGED exportVars
    /\ UNCHANGED <<src_ops, bloq, shim, power>>

\* _cirq_style_decompose_from_decompose_bloq after the exporter returned
\* (lines 62-71).
DecomposeReturn ==
    /\ pc = "exported"
    /\ LET m == MapBack(rights(shim.bloq.sig), out_quregs, quregs, qm,
                        [q \in OpQubits(ops) |-> q])
       IN  IF m.err # "none"
           THEN Fail(m.err) /\ UNCHANGED qm
           ELSE /\ result' = Circuit(transform_qubits(ops, m.qubit_map))
                /\ qm' = m.qm
                /\ pc' = "done"
                /\ UNCHANGED err
    /\ UNCHANGED <<call, graph, cirq_quregs, qvar_to_qreg, ops, visited, binst,
                   premanaged, out_quregs, src_ops>>
    /\ UNCHANGED shimVars

Next ==
    \/ ExportCall
    \/ ImportCall
    \/ ExportImported
    \/ ExportStep
    \/ ExportReturn
    \/ ShimInit
    \/ ShimHasUnitary
    \/ ShimUnitary
    \/ ShimPow
    \/ ShimDecompose
    \/ DecomposeReturn

Spec == Init /\ [][Next]_vars

\* ================================================================ claims
Count(seq, x) == Cardinality({i \in 1..Len(seq) : seq[i] = x})

ExportCalls == {"export", "import", "decompose"}

\* The exporter has returned its circuit and output arrays.
Exported == call \in ExportCalls /\ pc \in {"done", "exported"}

\* The state in which the exporter returns (before the shim's decomposition
\* frees and maps back the outputs of RIGHT-only registers).
ExportReturned ==
    \/ call \in {"export", "import"} /\ pc = "done"
    \/ call = "decompose" /\ pc = "exported"

AllThruGraph(g) ==
    /\ \A i \in 1..Len(g.sig) : g.sig[i].side = "THRU"
    /\ \A b \in DOMAIN g.binsts :
         \A i \in 1..Len(BloqSignature(g.binsts[b])) :
             BloqSignature(g.binsts[b])[i].side = "THRU"

\* The left-boundary Soquet a wire through THRU registers comes from.
RECURSIVE Origin(_, _)
Origin(g, s) ==
    LET c == CHOOSE x \in SeqToSet(g.cxns) : x.right = s
    IN  IF c.left.binst = LeftDangle THEN c.left ELSE Origin(g, c.left)

ReturnsOp(kind) == kind \notin {"Allocate", "Free", "Split"}

\* C1: a flat operation sequence imported with the default signature and
\* exported again on the qubits it was bound to comes back as the same
\* operations on the same qubits (as a multiset), and the export does not fail.
C1_RoundTrip ==
    call = "import" =>
        /\ pc # "error"
        /\ pc = "done" =>
             /\ result.type = "Circuit"
             /\ \A o \in SeqToSet(src_ops) \cup SeqToSet(result.ops) :
                  Count(result.ops, o) = Count(src_ops, o)

C1_Witness ==
    /\ call = "import"
    /\ pc = "done"
    /\ Len(src_ops) = MaxInstr
    /\ src_ops[1] = [gate |-> "CNOT", qubits |-> <<LineQubit(2), LineQubit(1)>>]
    /\ src_ops[2].gate = "X"

NumKind(g, kind) == Cardinality({b \in DOMAIN g.binsts : g.binsts[b] = kind})

Balanced(g) == WellFormed(g) /\ NumKind(g, "Allocate") = NumKind(g, "Free")

Available(g, vis, s) ==
    /\ \/ s.binst = LeftDangle /\ s \in RegSoquets(LeftDangle, lefts(g.sig))
       \/ /\ s.binst \in vis
          /\ s.reg.side = "RIGHT" \/ \E i \in 1..Len(g.cxns) : g.cxns[i].right = s
    /\ ~\E i \in 1..Len(g.cxns) : g.cxns[i].left = s /\ g.cxns[i].right.binst \in vis

ConsumesOnlyBound(g, vis, b) ==
    LET p == pred_cxns(g, b)
    IN  \A k \in 1..Len(p) :
            /\ Available(g, vis, p[k].left)
            /\ \A j \in 1..(k - 1) : p[j].left # p[k].left

\* C4: the traversal moves past a node only if every Soquet the node consumes
\* held a binding when it was looked up, the exporter returns only if every
\* right-boundary Soquet was wired, and a failed call returns neither a
\* circuit nor output arrays.
C4_MissingBindingFails ==
    [][/\ (pc = "export" /\ visited' # visited) =>
            ConsumesOnlyBound(graph, visited, binst')
       /\ (pc = "export" /\ pc' \in {"done", "exported"}) =>
            \A s \in OutputSoquets(graph.sig) :
                \E i \in 1..Len(graph.cxns) : graph.cxns[i].right = s
       /\ pc' = "error" => (result' = NoResult /\ out_quregs' = NoQuregs)]_vars

C4_Witness ==
    /\ call = "export"
    /\ pc = "error"
    /\ err.kind = "KeyError"
    /\ binst \notin visited
    /\ binst # RightDangle
    /\ ~ConsumesOnlyBound(graph, visited, binst)
    /\ \E b \in visited \cap DOMAIN graph.binsts : graph.binsts[b] = "Free"

ClassicalOut(g, b) ==
    \E i \in 1..Len(g.cxns) :
        /\ g.cxns[i].left.binst = b
        /\ g.cxns[i].left.reg.side = "RIGHT"
        /\ g.cxns[i].left.reg.dtype # "QBit"

\* C5: an instance whose classical RIGHT-only output has a successor is never
\* traversed successfully; when the traversal reaches it with its inputs
\* bound the export fails with the "not supported" error; no classical
\* RIGHT-only Soquet is ever bound and no circuit is returned.
C5_ClassicalOutputUnsupported ==
    call \in ExportCalls =>
        /\ \A s \in DOMAIN qvar_to_qreg : ~(s.reg.side = "RIGHT" /\ s.reg.dtype # "QBit")
        /\ \A b \in visited \ {RightDangle} : ~ClassicalOut(graph, b)
        /\ (\E b \in DOMAIN graph.binsts : ClassicalOut(graph, b)) =>
              (pc \notin {"done", "exported"} /\ result = NoResult)
        /\ (/\ pc = "error"
            /\ binst \in DOMAIN graph.binsts
            /\ binst \notin visited
            /\ ClassicalOut(graph, binst)
            /\ pred_cxns(graph, binst) # <<>>
            /\ ConsumesOnlyBound(graph, visited, binst)) => err.kind = "ValueError:classical"

C5_Witness ==
    /\ call = "export"
    /\ pc = "error"
    /\ err.kind = "ValueError:classical"
    /\ ClassicalOut(graph, binst)
    /\ visited # {}

SharedName(sig) ==
    \E i, j \in 1..Len(sig) : i # j /\ sig[i].name = sig[j].name

MentionsOffending(regs, sig) ==
    /\ Len(regs) > 1
    /\ \A i \in 1..Len(regs) : regs[i] \in SeqToSet(sig) /\ regs[i].name = regs[1].name

RefusedGroup ==
    /\ pc = "error"
    /\ err.kind = "ValueError"
    /\ MentionsOffending(err.regs, bloq.sig)
    /\ shim = NoShim

\* C6 as stated: a signature with a name group of more than one register is
\* refused with an error naming the registers, and every other signature is
\* wrapped.
C6_Original ==
    call = "init" =>
        IF SharedName(bloq.sig) THEN RefusedGroup
        ELSE pc = "shim" /\ shim = BloqAsCirqGate(bloq)

\* C6 amended: the same for an operation that is not itself a cirq.Gate; an
\* operation that is itself a cirq.Gate is refused by the constructor's
\* assertion whatever its signature, and no shim is created.
C6_ShimConstruction ==
    call = "init" =>
        IF bloq.isGate THEN pc = "error" /\ err.kind = "AssertionError" /\ shim = NoShim
        ELSE IF SharedName(bloq.sig) THEN RefusedGroup
        ELSE pc = "shim" /\ shim = BloqAsCirqGate(bloq)

C6_Witness ==
    /\ call = "init"
    /\ ~bloq.isGate
    /\ RefusedGroup
    /\ Len(bloq.sig) = MaxRegs
    /\ bloq.sig[1].side = "RIGHT"

NonThru(sig) == \E i \in 1..Len(sig) : sig[i].side # "THRU"

\* C7: the unitary of an operation with a LEFT or RIGHT register is the
\* "not implemented" sentinel, never a matrix, whatever decompose_bloq and
\* tensor_contract would do; _has_unitary_ is true only if every register is
\* THRU.
C7_UnitaryThruOnly ==
    /\ (call = "unitary" /\ NonThru(shim.bloq.sig)) =>
          (pc = "done" /\ result = NotImplemented)
    /\ (call = "has_unitary" /\ result.value) => ~NonThru(shim.bloq.sig)

C7_Witness ==
    /\ call = "unitary"
    /\ NonThru(shim.bloq.sig)
    /\ shim.bloq.decomp = "DecomposeTypeError"
    /\ shim.bloq.tensor = "ndim2"
    /\ result = NotImplemented

\* C8 as stated: the shim raised to 1 equals the operation's shim, and raised
\* to -1 equals the shim of the operation's adjoint.
C8_PowerLaw ==
    call = "pow" =>
        /\ power = 1 => shim_eq(BloqAsCirqGate(shim.bloq), result)
        /\ power = -1 => shim_eq(BloqAsCirqGate(adjoint(shim.bloq)), result)

\* The caller's qubit that stands for q in the decomposition's circuit: the
\* qubit at the same place of the caller's array when q is an output of a
\* RIGHT-only register, q itself otherwise.
MappedBack(q) ==
    LET hit == {r \in SeqToSet(shim.bloq.sig) :
                   r.side = "RIGHT" /\ \E k \in 1..r.len : out_quregs[r.name][k] = <<q>>}
    IN  IF hit = {} THEN q
        ELSE LET r == CHOOSE x \in hit : TRUE
                 k == CHOOSE k \in 1..r.len : out_quregs[r.name][k] = <<q>>
             IN  quregs[r.name][k][1]

\* C9: the shim's decomposition never raises DecomposeNotImplementedError or
\* DecomposeTypeError; when decompose_bloq raises one of them the call
\* returns the "not implemented" sentinel; when the decomposition exists and
\* its export succeeds the call returns the exported circuit (outputs of
\* RIGHT-only registers renamed to the caller's qubits).
C9_DecomposeFallback ==
    call = "decompose" =>
        /\ err.kind \notin {"DecomposeNotImplementedError", "DecomposeTypeError"}
        /\ shim.bloq.decomp \in {"DecomposeNotImplementedError", "DecomposeTypeError"} =>
              (pc = "done" /\ result = NotImplemented)
        /\ (shim.bloq.decomp = "ok" /\ pc = "done") =>
              /\ result.type = "Circuit"
              /\ Len(result.ops) = Len(ops)
              /\ \A i \in 1..Len(ops) :
                    /\ result.ops[i].gate = ops[i].gate
                    /\ Len(result.ops[i].qubits) = Len(ops[i].qubits)
                    /\ \A j \in 1..Len(ops[i].qubits) :
                          result.ops[i].qubits[j] = MappedBack(ops[i].qubits[j])

C9_Witness ==
    /\ call = "decompose"
    /\ pc = "done"
    /\ shim.bloq.decomp = "DecomposeTypeError"
    /\ result = NotImplemented

FirstAt(seq, x) == CHOOSE i \in 1..Len(seq) : seq[i] = x /\ \A j \in 1..(i - 1) : seq[j] # x

BoundQubits(s) == SeqToSet(qvar_to_qreg[s].qubits)

\* The input arrays of the export hold distinct qubits.
DistinctInputs ==
    \A n, m \in DOMAIN cirq_quregs :
        \A i \in 1..Len(cirq_quregs[n]), j \in 1..Len(cirq_quregs[m]) :
            (n # m \/ i # j) =>
                SeqToSet(cirq_quregs[n][i]) \cap SeqToSet(cirq_quregs[m][j]) = {}

\* C11: during an export whose input arrays hold distinct qubits, after the
\* initial binding and after every traversed instance, no qubit is held by
\* the bindings of two different Soquets of the binding map.
C11_NoAliasing ==
    (call \in ExportCalls /\ pc \in {"export", "exported", "done", "error"}
        /\ DistinctInputs) =>
        \A s, t \in DOMAIN qvar_to_qreg :
            s # t => BoundQubits(s) \cap BoundQubits(t) = {}

C11_Witness ==
    /\ call = "export"
    /\ pc = "export"
    /\ DistinctInputs
    /\ \E b \in visited \cap DOMAIN graph.binsts : graph.binsts[b] = "Allocate"
    /\ \E b \in visited \cap DOMAIN graph.binsts : graph.binsts[b] = "Split"
    /\ \E s, t \in DOMAIN qvar_to_qreg :
          /\ s # t
          /\ \E q \in BoundQubits(s) : q.kind = "clean"
          /\ \E q \in BoundQubits(t) : q.kind = "line"

\* The shim's decomposition has returned the circuit of a sub-graph.
Decomposed == call = "decompose" /\ pc = "done" /\ shim.bloq.decomp = "ok"

RightOnly(sig) == {r \in SeqToSet(sig) : r.side = "RIGHT"}

\* C12: in the shim's decomposition the input qubits of the left registers
\* are managed when the sub-graph export starts, so no free inside the
\* sub-graph is refused; once the decomposition has returned, every qubit the
\* export returned for a RIGHT-only register has been freed, is replaced in
\* the returned circuit by the caller's qubit at the same position and does
\* not occur in the returned circuit, and the caller's qubits of the
\* RIGHT-only register have not been freed.
C12_MapBackRightOnly ==
    /\ (call = "decompose" /\ pc # "shim" /\ shim.bloq.decomp = "ok") =>
          /\ AllQubits(cirq_quregs) \subseteq premanaged
          /\ err.kind # "FreeUnmanaged"
    /\ Decomposed =>
          \A r \in RightOnly(shim.bloq.sig) : \A k \in 1..r.len :
              \A q \in SeqToSet(out_quregs[r.name][k]) :
                  /\ q \in qm.freed
                  /\ q \notin qm.managed
                  /\ q \notin OpQubits(result.ops)
                  /\ \A i \in 1..Len(ops) : \A j \in 1..Len(ops[i].qubits) :
                        ops[i].qubits[j] = q =>
                            result.ops[i].qubits[j] = quregs[r.name][k][1]
                  /\ SeqToSet(quregs[r.name][k]) \cap qm.freed = {}

C12_Witness ==
    /\ Decomposed
    /\ \E r \in RightOnly(shim.bloq.sig) :
          \E i \in 1..Len(ops) :
              /\ ops[i].qubits = out_quregs[r.name][1]
              /\ ops[i].qubits[1].kind = "clean"
              /\ result.ops[i].qubits = quregs[r.name][1]
    /\ AllQubits(cirq_quregs) \cap qm.freed # {}

\* C13 as stated: the shim raised to an exponent n other than 1 and -1 is a
\* repetition with exponent |n| of the operation itself when n is not
\* negative and of its adjoint when n is negative, and the shim and its
\* operation are unchanged.
C13_PowerOther ==
    (call = "pow" /\ power \notin {1, -1}) =>
        /\ result.type = "Power"
        /\ result.power = Abs(power)
        /\ result.bloq = IF power < 0 THEN adjoint(shim.bloq) ELSE shim.bloq
        /\ shim = BloqAsCirqGate(bloq)

\* The traversal of an export has begun.
Traversing == call \in ExportCalls /\ pc \in {"export", "exported", "done", "error"}

\* Every node of the graph but the left boundary has been processed.
AllProcessed == GraphNodes(graph) \ {LeftDangle} \subseteq visited

\* A lookup of a consumed Soquet missed the binding map.
BindingMiss == err.kind \in {"KeyError", "AssertionError"}

\* C14 as stated: in the export of a well-formed graph, in any topological
\* order, no lookup misses the binding map, and once the right boundary has
\* been processed the keys of the binding map are exactly the right-boundary
\* Soquets of the signature.
C14_Original ==
    (Traversing /\ WellFormed(graph)) =>
        /\ ~BindingMiss
        /\ RightDangle \in visited => DOMAIN qvar_to_qreg = OutputSoquets(graph.sig)

\* C14 amended: in the export of a well-formed graph, in any topological
\* order, no lookup misses the binding map, the bindings of the right-boundary
\* Soquets stay in the map once the right boundary has been processed, and
\* once every node has been processed the keys of the binding map are exactly
\* the right-boundary Soquets of the signature.
C14_BindingsAtEnd ==
    (Traversing /\ WellFormed(graph)) =>
        /\ ~BindingMiss
        /\ RightDangle \in visited => OutputSoquets(graph.sig) \subseteq DOMAIN qvar_to_qreg
        /\ AllProcessed => DOMAIN qvar_to_qreg = OutputSoquets(graph.sig)

C14_Witness ==
    /\ call = "export"
    /\ pc = "export"
    /\ WellFormed(graph)
    /\ AllProcessed
    /\ RightDangle \in visited
    /\ binst \in DOMAIN graph.binsts
    /\ graph.binsts[binst] = "Free"
    /\ DOMAIN qvar_to_qreg # {}

====
